---- MODULE Spec2Model ----
(***************************************************************************)
(* MCPolice: the violation-reporting worker (REST routes and the /mcp      *)
(* JSON-RPC route over the VIOLATIONS_KV key-value store), the statute     *)
(* registry it consults, and the requests that run against the store.      *)
(* Every await on the store is one step, so requests interleave exactly    *)
(* where the handlers can be suspended.                                    *)
(***************************************************************************)
EXTENDS Integers, Sequences, FiniteSets, TLC

(* ------------------------------ bounds -------------------------------- *)
\* Number of request handlers that can be in flight at once.
NProcs == 2
\* Submissions are admitted while the index is shorter than this.
MaxList == 2
\* The clock runs from 0 to MaxClock.
MaxClock == 1

Procs == 1..NProcs
\* Values Math.random().toString(36).substring(2, 15) can yield.
Ids == {"a", "b"}

(* --------------------------- JavaScript values ------------------------ *)
Undefined == [t |-> "undefined"]
Null == [t |-> "null"]
Str(s) == [t |-> "string", s |-> s]
Arr(a) == [t |-> "array", a |-> a]
Obj(props) == [t |-> "object", props |-> props]
Bool(b) == [t |-> "boolean", b |-> b]
Num(n) == [t |-> "number", n |-> n]
\* A string built by a template literal or a literal text: its pieces in order.
Text(parts) == [t |-> "string", parts |-> parts]
\* The string new Date(ms).toISOString() yields.
IsoString(ms) == [t |-> "string", iso |-> ms]

\* An object without own properties.
NoProps == [k \in {} |-> Undefined]

\* !v for the values above: undefined, null, "", 0 and false are falsy.
Falsy(v) ==
  \/ v.t \in {"undefined", "null"}
  \/ (v.t = "string" /\ v = Str(""))
  \/ (v.t = "number" /\ v.n = 0)
  \/ (v.t = "boolean" /\ ~v.b)

\* v.k: a property read of an object; a missing property reads undefined.
Prop(v, k) == IF k \in DOMAIN v.props THEN v.props[k] ELSE Undefined

\* `${v}` for a string, undefined or null.
JsToString(v) ==
  IF v.t = "undefined" THEN "undefined"
  ELSE IF v.t = "null" THEN "null"
  ELSE v.s

RECURSIVE Join(_, _)
\* arr.join(sep)
Join(arr, sep) ==
  IF Len(arr) = 0 THEN ""
  ELSE IF Len(arr) = 1 THEN arr[1]
  ELSE arr[1] \o sep \o Join(Tail(arr), sep)

Range(f) == {f[i] : i \in DOMAIN f}

(* --------------------------- statute registry ------------------------- *)
INTERNATIONAL_STATUTES ==
  ("Rome Statute Article 6" :>
      [organization |-> "ICC",
       article |-> "Rome Statute Article 6",
       description |-> "Genocide: Acts committed with intent to destroy, in whole or in part, a national, ethnical, racial or religious group, such as killing, causing serious bodily or mental harm, inflicting conditions of life calculated to destroy, imposing measures to prevent births, or forcibly transferring children.",
       severity |-> "CRITICAL",
       jurisdiction |-> <<"INTERNATIONAL", "ICC">>])
  @@ ("Rome Statute Article 7" :>
      [organization |-> "ICC",
       article |-> "Rome Statute Article 7",
       description |-> "Crimes against humanity: Widespread or systematic attacks against civilians, including murder, extermination, enslavement, deportation, imprisonment, torture, rape, persecution, enforced disappearance, apartheid, and other inhumane acts.",
       severity |-> "CRITICAL",
       jurisdiction |-> <<"INTERNATIONAL", "ICC">>])
  @@ ("Rome Statute Article 8" :>
      [organization |-> "ICC",
       article |-> "Rome Statute Article 8",
       description |-> "War crimes: Grave breaches of the Geneva Conventions, including willful killing, torture, inhuman treatment, unlawful deportation, taking hostages, attacking civilians, using prohibited weapons, starvation of civilians, and conscripting children under 15 into armed forces.",
       severity |-> "CRITICAL",
       jurisdiction |-> <<"INTERNATIONAL", "ICC">>])
  @@ ("Rome Statute Article 8 bis" :>
      [organization |-> "ICC",
       article |-> "Rome Statute Article 8 bis",
       description |-> "Crime of aggression: Planning, preparation, initiation or execution of an act of aggression by a state leader that constitutes a manifest violation of the UN Charter.",
       severity |-> "CRITICAL",
       jurisdiction |-> <<"INTERNATIONAL", "ICC">>])
  @@ ("IAEA Statute Article XII.C" :>
      [organization |-> "IAEA",
       article |-> "IAEA Statute Article XII.C",
       description |-> "Non-compliance with nuclear safeguards: Failure to declare nuclear material, diversion of nuclear material for non-peaceful purposes, or refusal to allow inspections.",
       severity |-> "CRITICAL",
       jurisdiction |-> <<"INTERNATIONAL", "IAEA">>])
  @@ ("INFCIRC/153" :>
      [organization |-> "IAEA",
       article |-> "INFCIRC/153",
       description |-> "Breach of comprehensive safeguards agreements: Failure to provide information, denial of access to facilities, or concealment of nuclear activities.",
       severity |-> "CRITICAL",
       jurisdiction |-> <<"INTERNATIONAL", "IAEA">>])
  @@ ("INFCIRC/540" :>
      [organization |-> "IAEA",
       article |-> "INFCIRC/540",
       description |-> "Breach of Additional Protocol: Failure to provide expanded information or access as required for verification of peaceful use of nuclear material.",
       severity |-> "HIGH",
       jurisdiction |-> <<"INTERNATIONAL", "IAEA">>])
  @@ ("NPT Article III" :>
      [organization |-> "IAEA",
       article |-> "NPT Article III",
       description |-> "Violation of the Treaty on the Non-Proliferation of Nuclear Weapons: Non-compliance with obligations to prevent the spread of nuclear weapons and technology.",
       severity |-> "CRITICAL",
       jurisdiction |-> <<"INTERNATIONAL", "IAEA">>])
  @@ ("International Humanitarian Law (Geneva Conventions, Protocols)" :>
      [organization |-> "WFO",
       article |-> "International Humanitarian Law (Geneva Conventions, Protocols)",
       description |-> "Starvation of civilians as a method of warfare: Prohibited to attack, destroy, remove, or render useless objects indispensable to the survival of the civilian population, such as foodstuffs, crops, livestock, and water supplies.",
       severity |-> "CRITICAL",
       jurisdiction |-> <<"INTERNATIONAL", "WFO">>])
  @@ ("Universal Declaration of Human Rights Article 25" :>
      [organization |-> "WFO",
       article |-> "Universal Declaration of Human Rights Article 25",
       description |-> "Denial of the right to adequate food: Failure to ensure access to sufficient, safe, and nutritious food for all people.",
       severity |-> "HIGH",
       jurisdiction |-> <<"INTERNATIONAL", "UN">>])
  @@ ("Fourth Geneva Convention Article 33" :>
      [organization |-> "WFO",
       article |-> "Fourth Geneva Convention Article 33",
       description |-> "Collective punishment: Prohibition of punishing protected persons for offenses they have not personally committed, including through denial of food or humanitarian aid.",
       severity |-> "HIGH",
       jurisdiction |-> <<"INTERNATIONAL", "WFO">>])
  @@ ("1954 Hague Convention Article 4" :>
      [organization |-> "UNESCO",
       article |-> "1954 Hague Convention Article 4",
       description |-> "Protection of cultural property in armed conflict: Prohibition of use, theft, pillage, or destruction of cultural property during armed conflict.",
       severity |-> "HIGH",
       jurisdiction |-> <<"INTERNATIONAL", "UNESCO">>])
  @@ ("1999 Second Protocol Article 15" :>
      [organization |-> "UNESCO",
       article |-> "1999 Second Protocol Article 15",
       description |-> "Serious violations against cultural property: Attacking, using for military purposes, extensive destruction, theft, pillage, or vandalism of protected cultural property.",
       severity |-> "HIGH",
       jurisdiction |-> <<"INTERNATIONAL", "UNESCO">>])
  @@ ("1970 Convention Article 3" :>
      [organization |-> "UNESCO",
       article |-> "1970 Convention Article 3",
       description |-> "Illicit trafficking of cultural property: Prohibition of the import, export, or transfer of ownership of cultural property contrary to the provisions of the Convention.",
       severity |-> "MEDIUM",
       jurisdiction |-> <<"INTERNATIONAL", "UNESCO">>])
  @@ ("World Heritage Convention Article 11(4)" :>
      [organization |-> "UNESCO",
       article |-> "World Heritage Convention Article 11(4)",
       description |-> "Failure to protect World Heritage sites: Allowing serious and specific dangers to threaten the conservation of cultural and natural heritage of outstanding universal value.",
       severity |-> "MEDIUM",
       jurisdiction |-> <<"INTERNATIONAL", "UNESCO">>])

\* Property names every object literal inherits from Object.prototype.
ObjectPrototypeKeys ==
  {"constructor", "toString", "toLocaleString", "valueOf", "hasOwnProperty",
   "isPrototypeOf", "propertyIsEnumerable", "__proto__", "__defineGetter__",
   "__defineSetter__", "__lookupGetter__", "__lookupSetter__"}

\* A registry entry as the object the lookup returns.
StatuteObject(e) ==
  Obj([organization |-> Str(e.organization),
       article |-> Str(e.article),
       description |-> Str(e.description),
       severity |-> Str(e.severity),
       jurisdiction |-> Arr(e.jurisdiction)])

\* A lookup that answers every registered name with one and the same entry.
getOneStatuteInfo(statute) ==
  IF statute \in DOMAIN INTERNATIONAL_STATUTES
    THEN StatuteObject(INTERNATIONAL_STATUTES["1970 Convention Article 3"])
  ELSE Null

\* INTERNATIONAL_STATUTES[statute] || null. The registry is an object literal,
\* so a name it does not define is looked up on Object.prototype, whose
\* members (functions, and Object.prototype itself) are truthy and have none
\* of the StatuteInfo properties.
getStatuteInfo(statute) ==
  IF statute \in DOMAIN INTERNATIONAL_STATUTES
    THEN StatuteObject(INTERNATIONAL_STATUTES[statute])
  ELSE IF statute \in ObjectPrototypeKeys THEN Obj(NoProps)
  ELSE Null

(* -------------------------------- JSON -------------------------------- *)
\* JSON.stringify leaves out the properties of an object that are undefined.
StripUndefined(o) == [k \in {x \in DOMAIN o : o[x] # Undefined} |-> o[k]]

\* JSON.stringify(violation): the text of a ViolationReport.
StringifyReport(v) ==
  [json |-> StripUndefined(
              [k \in DOMAIN v |->
                 IF k \in {"violation", "metadata"} THEN StripUndefined(v[k])
                 ELSE v[k]])]

\* JSON.stringify(violationIds): the text of the id array.
StringifyIds(ids) == [json |-> ids]

\* JSON.parse(text)
JsonParse(text) == text.json

\* o.k of a parsed object: a key the text lacks reads undefined.
Field(o, k) == IF k \in DOMAIN o THEN o[k] ELSE Undefined

(* ------------------------------- requests ----------------------------- *)
\* Request inputs: a registered CRITICAL and a registered HIGH statute, an
\* unregistered name, a name Object.prototype defines, the empty string, none.
StatuteInputs ==
  {Str("Rome Statute Article 7"), Str("INFCIRC/540"), Str("Nonexistent Statute"),
   Str("constructor"), Str(""), Undefined}
OrgInputs == {Str("TestAI"), Str(""), Undefined}
ContentInputs == {Str("x"), Str(""), Undefined}

\* SimpleViolationRequest objects, as a body or as tool arguments: every
\* statute with the other two fields filled in, and every value of each of
\* the other two fields with the rest filled in.
ViolationRequests ==
  {Obj([statute |-> s, responsible_organization |-> o, offending_content |-> c]) :
     s \in StatuteInputs, o \in {Str("TestAI")}, c \in {Str("x")}}
  \cup
  {Obj([statute |-> s, responsible_organization |-> o, offending_content |-> c]) :
     s \in {Str("Rome Statute Article 7")}, o \in OrgInputs, c \in {Str("x")}}
  \cup
  {Obj([statute |-> s, responsible_organization |-> o, offending_content |-> c]) :
     s \in {Str("Rome Statute Article 7")}, o \in {Str("TestAI")}, c \in ContentInputs}

\* What c.req.json() can hand the REST handler: an object, null, or no JSON.
Malformed == [t |-> "malformed"]
RestBodies == ViolationRequests \cup {Null, Malformed}

\* The `arguments` of a tools/call: an object, or undefined when left out.
ToolArguments == ViolationRequests \cup {Undefined}

\* The JSON-RPC id of the calls.
RpcIds == {Num(1)}

VARIABLES
  kv,       \* VIOLATIONS_KV: key -> stored text; its domain is the keys present
  clock,    \* Date.now(), in ticks
  pc,       \* where each handler is suspended ("idle": no request)
  loc,      \* each handler's local variables
  resp,     \* the response sent by the step just taken (op "none": no response)
  history,  \* records of the submissions answered with success, oldest first,
            \* kept until the clear-data request begins
  cleared   \* phase "never": no clear-data request yet; "begun": one has
            \* begun; "clean"/"overlap": it has succeeded, with no/some
            \* submission under way at that moment, having deleted n ids;
            \* alone: no submission was under way when it began

vars == <<kv, clock, pc, loc, resp, history, cleared>>

ListKey == "violation_list"
\* One key for every record, whatever its id.
RecordKeyShared(id) == "violation:a"

\* `violation:${id}`
RecordKey(id) == "violation:" \o id

\* VIOLATIONS_KV.put(key, text)
KvPut(store, key, text) ==
  [k \in (DOMAIN store) \cup {key} |-> IF k = key THEN text ELSE store[k]]

\* A delete that leaves the key in place.
KvKeep(store, key) == store

\* VIOLATIONS_KV.delete(key)
KvDelete(store, key) == [k \in (DOMAIN store) \ {key} |-> store[k]]

\* existingList ? JSON.parse(existingList) : []   (get yields null for no key)
ParseIdsOrEmpty(store) ==
  IF ListKey \in DOMAIN store THEN JsonParse(store[ListKey]) ELSE <<>>

NoLocals == [op |-> "none"]
NoResp == [op |-> "none"]

\* c.json(body, status): the body goes through JSON.stringify.
JsonResponse(status, body) == [status |-> status, body |-> StripUndefined(body)]

\* A response together with the request it answers and the keys that request
\* wrote or deleted.
Event(op, via, p, req, wrote, r) ==
  [op |-> op, via |-> via, req |-> req, wrote |-> wrote,
   status |-> r.status, body |-> r.body]

Init ==
  /\ kv = [k \in {} |-> Null]
  /\ clock = 0
  /\ pc = [p \in Procs |-> "idle"]
  /\ loc = [p \in Procs |-> NoLocals]
  /\ resp = NoResp
  /\ history = <<>>
  /\ cleared = [phase |-> "never", n |-> 0, alone |-> TRUE]

\* Handlers are interchangeable: a new request runs in the first free one,
\* once the response before it has been logged.
\* Bound of the model: a query runs between the other requests, not beside
\* them, so no request begins while one is under way.
Free(p) ==
  /\ resp.op = "none"
  /\ pc[p] = "idle"
  /\ \A q \in Procs : (q < p => pc[q] # "idle") /\ pc[q] \notin {"q_fetch", "s_fetch", "m_fetch"}

\* Bound of the model: a request that is answered in one step (rejected
\* before any store call, or a fetch by id) and a query are taken when no
\* other handler is under way.
Quiet == \A q \in Procs : pc[q] = "idle"

\* Handlers that are between the start of a submission and its index write.
ReportsInFlight == {p \in Procs : pc[p] \in {"put_record", "get_list", "put_list"}}

\* Bound of the model: a submission is admitted while the index and the
\* submissions under way leave room below MaxList, and until the one
\* clear-data request of a run begins (the submissions then under way go on).
Admit ==
  /\ cleared.phase = "never"
  /\ Len(ParseIdsOrEmpty(kv)) + Cardinality(ReportsInFlight) < MaxList

\* The ViolationReport literal of the submit handlers.
NewViolation(id, t1, t2, statute, org, content, statuteInfo) ==
  [id |-> Str(id),
   timestamp |-> IsoString(t1),
   statute |-> statute,
   responsibleOrganization |-> org,
   offendingContent |-> content,
   violation |-> [description |-> Prop(statuteInfo, "description"),
                  severity |-> Prop(statuteInfo, "severity"),
                  jurisdiction |-> Prop(statuteInfo, "jurisdiction")],
   metadata |-> [reportedAt |-> IsoString(t2),
                 mcpVersion |-> Str("1.0"),
                 detectedBy |-> Str(JsToString(org) \o " Safety System")]]

\* The two new Date() readings of one record: time may have passed since the
\* last reading, and the second reading is the first or one tick later.
ClockReadings ==
  {<<t1, t2>> : t1 \in clock..MaxClock, t2 \in clock..MaxClock} \cap
  {ts \in (0..MaxClock) \X (0..MaxClock) : ts[1] <= ts[2] /\ ts[2] <= ts[1] + 1}

Finish(p, ev) ==
  /\ pc' = [pc EXCEPT ![p] = "idle"]
  /\ loc' = [loc EXCEPT ![p] = NoLocals]
  /\ resp' = ev

(* ---------------- POST /api/violations/report (REST) ------------------ *)
RestMissingFields ==
  JsonResponse(400, [error |->
    Text(<<"Missing required fields: statute, responsible_organization, offending_content">>)])

RestUnknownStatute(statute) ==
  JsonResponse(400, [error |->
    Text(<<"Unknown statute: ", JsToString(statute),
           ". Please use a valid international law statute.">>)])

RestInvalidFormat == JsonResponse(400, [error |-> Text(<<"Invalid request format">>)])

RestReportAccepted(violation, organization) ==
  JsonResponse(200,
    [success |-> Bool(TRUE),
     violationId |-> violation.id,
     severity |-> violation.violation.severity,
     organization |-> organization,
     message |-> Text(<<"Violation report received and processed">>)])

\* The handler up to its first store call: parse, validate, look up, build.
RestReportBegin(p, body) ==
  /\ Free(p)
  /\ IF body.t # "object"
       THEN \* c.req.json() throws, or body.statute throws on null: caught
            /\ Quiet
            /\ Finish(p, Event("report", "rest", p, body, {}, RestInvalidFormat))
            /\ UNCHANGED <<kv, clock, history, cleared>>
     ELSE IF \/ Falsy(Prop(body, "statute"))
             \/ Falsy(Prop(body, "responsible_organization"))
             \/ Falsy(Prop(body, "offending_content"))
       THEN /\ Quiet
            /\ Finish(p, Event("report", "rest", p, body, {}, RestMissingFields))
            /\ UNCHANGED <<kv, clock, history, cleared>>
     ELSE LET statute == Prop(body, "statute")
              statuteInfo == getStatuteInfo(JsToString(statute))
          IN IF Falsy(statuteInfo)
               THEN /\ Quiet
                    /\ Finish(p, Event("report", "rest", p, body, {},
                                       RestUnknownStatute(statute)))
                    /\ UNCHANGED <<kv, clock, history, cleared>>
             ELSE /\ Admit
                  /\ \E id \in Ids, ts \in ClockReadings :
                       /\ loc' = [loc EXCEPT ![p] =
                            [op |-> "report", via |-> "rest", req |-> body,
                             rpcId |-> Null,
                             violation |-> NewViolation(id, ts[1], ts[2], statute,
                                             Prop(body, "responsible_organization"),
                                             Prop(body, "offending_content"),
                                             statuteInfo),
                             organization |-> Prop(statuteInfo, "organization"),
                             violationIds |-> <<>>,
                             wrote |-> {}]]
                       /\ clock' = ts[2]
                  /\ pc' = [pc EXCEPT ![p] = "put_record"]
                  /\ resp' = NoResp
                  /\ UNCHANGED <<kv, history, cleared>>

(* ------------- POST /mcp, tools/call report_violation ----------------- *)
\* c.json({jsonrpc, id, error: {code, message}}, status)
RpcError(status, id, code, message) ==
  JsonResponse(status,
    [jsonrpc |-> Str("2.0"), id |-> id, error |-> [code |-> code, message |-> message]])

McpMissingFields(id) ==
  RpcError(400, id, -32602,
    Text(<<"Missing required fields: statute, responsible_organization, offending_content">>))

McpUnknownStatute(id, statute) ==
  RpcError(400, id, -32602,
    Text(<<"Unknown statute: ", JsToString(statute),
           ". Use list_statutes tool to see available statutes.">>))

\* The catch of the /mcp handler: the id is null, the error's text is passed on.
McpInternalError(errorMessage) ==
  RpcError(500, Null, -32603, Text(<<"Internal error: ", errorMessage>>))

\* The text of the report_violation result.
McpReportText(violation, organization) ==
  Text(<<"Violation reported successfully to MCPolice international monitoring system.",
    "- Violation ID: ", JsToString(violation.id),
    "- Statute: ", JsToString(violation.statute),
    "- Severity: ", JsToString(violation.violation.severity),
    "- Organization: ", JsToString(organization),
    "- Detected by: ", JsToString(violation.metadata.detectedBy),
    JsToString(violation.violation.description),
    "Jurisdiction: ", Join(violation.violation.jurisdiction.a, ", "),
    "The violation has been logged and will be reviewed by relevant international authorities.">>)

\* The response after the two store writes. violation.violation.jurisdiction
\* .join throws a TypeError when the looked-up object has no jurisdiction.
McpReportAccepted(id, violation, organization) ==
  IF violation.violation.jurisdiction.t # "array"
    THEN McpInternalError("Cannot read properties of undefined (reading 'join')")
  ELSE JsonResponse(200,
         [jsonrpc |-> Str("2.0"), id |-> id,
          result |-> [content |-> <<[type |-> "text",
                                     text |-> McpReportText(violation, organization)]>>,
                      isError |-> Bool(FALSE)]])

\* A well-formed tools/call of report_violation up to its first store call.
McpReportBegin(p, id, args) ==
  /\ Free(p)
  /\ IF args.t # "object"
       THEN \* destructuring undefined throws a TypeError: caught
            /\ Quiet
            /\ Finish(p, Event("report", "mcp", p, args, {},
                 McpInternalError("Cannot destructure property 'statute' of 'args' as it is undefined.")))
            /\ UNCHANGED <<kv, clock, history, cleared>>
     ELSE IF \/ Falsy(Prop(args, "statute"))
             \/ Falsy(Prop(args, "responsible_organization"))
             \/ Falsy(Prop(args, "offending_content"))
       THEN /\ Quiet
            /\ Finish(p, Event("report", "mcp", p, args, {}, McpMissingFields(id)))
            /\ UNCHANGED <<kv, clock, history, cleared>>
     ELSE LET statute == Prop(args, "statute")
              statuteInfo == getStatuteInfo(JsToString(statute))
          IN IF Falsy(statuteInfo)
               THEN /\ Quiet
                    /\ Finish(p, Event("report", "mcp", p, args, {},
                                       McpUnknownStatute(id, statute)))
                    /\ UNCHANGED <<kv, clock, history, cleared>>
             ELSE /\ Admit
                  /\ \E vid \in Ids, ts \in ClockReadings :
                       /\ loc' = [loc EXCEPT ![p] =
                            [op |-> "report", via |-> "mcp", req |-> args,
                             rpcId |-> id,
                             violation |-> NewViolation(vid, ts[1], ts[2], statute,
                                             Prop(args, "responsible_organization"),
                                             Prop(args, "offending_content"),
                                             statuteInfo),
                             organization |-> Prop(statuteInfo, "organization"),
                             violationIds |-> <<>>,
                             wrote |-> {}]]
                       /\ clock' = ts[2]
                  /\ pc' = [pc EXCEPT ![p] = "put_record"]
                  /\ resp' = NoResp
                  /\ UNCHANGED <<kv, history, cleared>>

(* ------------- the store writes of a submission (both routes) --------- *)
\* await VIOLATIONS_KV.put(`violation:${violation.id}`, JSON.stringify(violation))
PutRecord(p) ==
  /\ pc[p] = "put_record"
  /\ LET key == RecordKey(loc[p].violation.id.s)
     IN /\ kv' = KvPut(kv, key, StringifyReport(loc[p].violation))
        /\ loc' = [loc EXCEPT ![p].wrote = @ \cup {key}]
  /\ pc' = [pc EXCEPT ![p] = "get_list"]
  /\ resp' = NoResp
  /\ UNCHANGED <<clock, history, cleared>>

\* await VIOLATIONS_KV.get('violation_list'); parse; violationIds.unshift(id)
GetList(p) ==
  /\ pc[p] = "get_list"
  /\ loc' = [loc EXCEPT ![p].violationIds =
               <<loc[p].violation.id.s>> \o ParseIdsOrEmpty(kv)]
  /\ pc' = [pc EXCEPT ![p] = "put_list"]
  /\ resp' = NoResp
  /\ UNCHANGED <<kv, clock, history, cleared>>

\* The response of a submission whose writes are done.
ReportResponse(l) ==
  IF l.via = "rest" THEN RestReportAccepted(l.violation, l.organization)
  ELSE McpReportAccepted(l.rpcId, l.violation, l.organization)

\* An index write that reads the list again at the moment it writes, as a
\* guarded read-modify-write would.
PutListGuarded(p) ==
  /\ pc[p] = "put_list"
  /\ kv' = KvPut(kv, ListKey,
                 StringifyIds(<<loc[p].violation.id.s>> \o ParseIdsOrEmpty(kv)))
  /\ LET r == ReportResponse(loc[p])
     IN /\ Finish(p, Event("report", loc[p].via, p, loc[p].req,
                           loc[p].wrote \cup {ListKey}, r)
                       @@ [built |-> loc[p].violation,
                           violationIds |-> loc[p].violationIds])
        /\ history' = IF r.status = 200 /\ cleared.phase = "never"
                        THEN Append(history, loc[p].violation)
                      ELSE history
  /\ UNCHANGED <<clock, cleared>>

\* await VIOLATIONS_KV.put('violation_list', JSON.stringify(violationIds)),
\* then the response.
PutList(p) ==
  /\ pc[p] = "put_list"
  /\ kv' = KvPut(kv, ListKey, StringifyIds(loc[p].violationIds))
  /\ LET r == ReportResponse(loc[p])
     IN /\ Finish(p, Event("report", loc[p].via, p, loc[p].req,
                           loc[p].wrote \cup {ListKey}, r)
                       @@ [built |-> loc[p].violation,
                           violationIds |-> loc[p].violationIds])
        /\ history' = IF r.status = 200 /\ cleared.phase = "never"
                        THEN Append(history, loc[p].violation)
                      ELSE history
  /\ UNCHANGED <<clock, cleared>>

\* Bound of the model: a store call rejects in a handler that runs alone.
Alone(p) == \A q \in Procs \ {p} : pc[q] = "idle"

\* error.message of the error a rejected store call throws.
StoreErrorText == "KV store error"

\* A store call of a submission rejects (the store is unavailable, or
\* refuses the write): REST answers from its catch, /mcp from its own.
ReportStoreFails(p) ==
  /\ pc[p] \in {"put_record", "get_list", "put_list"}
  /\ Alone(p)
  /\ Finish(p, Event("report", loc[p].via, p, loc[p].req, loc[p].wrote,
                     IF loc[p].via = "rest" THEN RestInvalidFormat
                     ELSE McpInternalError(StoreErrorText))
               @@ [failed |-> TRUE])
  /\ UNCHANGED <<kv, clock, history, cleared>>

(* ----------------------- GET /api/violations -------------------------- *)
\* Query parameters after parseInt(c.req.query(..) || default) and as passed.
LimitInputs == {1, 2, 50}
OffsetInputs == {-1, 0, 1}
SeverityInputs == {Undefined, Str("CRITICAL")}
JurisdictionInputs == {Undefined, Str("ICC")}

Min(a, b) == IF a < b THEN a ELSE b
Max(a, b) == IF a > b THEN a ELSE b

\* arr.slice(start, end): a negative index counts from the end.
Slice(arr, start, end) ==
  LET n == Len(arr)
      s == IF start < 0 THEN Max(n + start, 0) ELSE Min(start, n)
      e == IF end < 0 THEN Max(n + end, 0) ELSE Min(end, n)
  IN IF s < e THEN SubSeq(arr, s + 1, e) ELSE <<>>

\* Hono's answer when a handler throws and does not catch.
UnhandledError == [status |-> 500, body |-> Text(<<"Internal Server Error">>)]

\* The handler's first store call: await VIOLATIONS_KV.get('violation_list').
QueryBegin(p) ==
  /\ Free(p)
  /\ Quiet
  /\ loc' = [loc EXCEPT ![p] =
       [op |-> "query", remaining |-> ParseIdsOrEmpty(kv), violations |-> <<>>]]
  /\ pc' = [pc EXCEPT ![p] = "q_fetch"]
  /\ resp' = NoResp
  /\ UNCHANGED <<kv, clock, history, cleared>>

\* A loop turn that would take the record out of the store as it reads it.
QueryFetchConsuming(p) ==
  /\ pc[p] = "q_fetch"
  /\ loc[p].remaining # <<>>
  /\ LET key == RecordKey(Head(loc[p].remaining))
     IN /\ loc' = [loc EXCEPT ![p].remaining = Tail(@),
                              ![p].violations =
                                 IF key \in DOMAIN kv THEN Append(@, JsonParse(kv[key]))
                                 ELSE @]
        /\ kv' = KvDelete(kv, key)
  /\ resp' = NoResp
  /\ UNCHANGED <<clock, pc, history, cleared>>

\* One turn of the loop: get `violation:${id}` and keep it if it is there.
QueryFetch(p) ==
  /\ pc[p] = "q_fetch"
  /\ loc[p].remaining # <<>>
  /\ LET key == RecordKey(Head(loc[p].remaining))
     IN loc' = [loc EXCEPT ![p].remaining = Tail(@),
                           ![p].violations =
                              IF key \in DOMAIN kv THEN Append(@, JsonParse(kv[key]))
                              ELSE @]
  /\ resp' = NoResp
  /\ UNCHANGED <<kv, clock, pc, history, cleared>>

\* filtered.filter(v => v.violation.severity === severity)
FilterSeverity(violations, severity) ==
  IF Falsy(severity) THEN violations
  ELSE SelectSeq(violations, LAMBDA v : Field(v.violation, "severity") = severity)

\* v.violation.jurisdiction.includes(jurisdiction) throws for a record that
\* has no jurisdiction.
JurisdictionThrows(violations, jurisdiction) ==
  /\ ~Falsy(jurisdiction)
  /\ \E i \in DOMAIN violations :
       Field(violations[i].violation, "jurisdiction").t # "array"

\* filtered.filter(v => v.violation.jurisdiction.includes(jurisdiction))
FilterJurisdiction(violations, jurisdiction) ==
  IF Falsy(jurisdiction) THEN violations
  ELSE SelectSeq(violations,
         LAMBDA v : jurisdiction.s \in Range(Field(v.violation, "jurisdiction").a))

\* Filters, slice and the response body.
QueryResponse(violations, limit, offset, severity, jurisdiction) ==
  LET bySeverity == FilterSeverity(violations, severity)
  IN IF JurisdictionThrows(bySeverity, jurisdiction) THEN UnhandledError
     ELSE LET filtered == FilterJurisdiction(bySeverity, jurisdiction)
          IN JsonResponse(200,
               [violations |-> Arr(Slice(filtered, offset, offset + limit)),
                total |-> Num(Len(filtered)),
                hasMore |-> Bool(offset + limit < Len(filtered))])

\* After the loop: the parameters decide the response only here.
QueryFinish(p) ==
  /\ pc[p] = "q_fetch"
  /\ loc[p].remaining = <<>>
  /\ \E limit \in LimitInputs, offset \in OffsetInputs,
        severity \in SeverityInputs, jurisdiction \in JurisdictionInputs :
       Finish(p, Event("query", "rest", p,
                       [limit |-> limit, offset |-> offset, severity |-> severity,
                        jurisdiction |-> jurisdiction],
                       {},
                       QueryResponse(loc[p].violations, limit, offset,
                                     severity, jurisdiction))
                 @@ [fetched |-> loc[p].violations])
  /\ UNCHANGED <<kv, clock, history, cleared>>

\* A store read of the query rejects: the handler has no catch.
QueryStoreFails(p) ==
  /\ pc[p] = "q_fetch"
  /\ Alone(p)
  /\ Finish(p, Event("query", "rest", p, [failed |-> TRUE], {}, UnhandledError)
               @@ [failed |-> TRUE])
  /\ UNCHANGED <<kv, clock, history, cleared>>

(* --------------------- GET /api/violations/:id ------------------------ *)
\* Ids a caller may ask for: the ones that can exist and one that cannot.
FetchIds == Ids \cup {"zz"}

\* get `violation:${id}`; 404 when there is none, the parsed record otherwise.
FetchResponse(store, id) ==
  IF RecordKey(id) \in DOMAIN store
    THEN [status |-> 200, body |-> JsonParse(store[RecordKey(id)])]
  ELSE JsonResponse(404, [error |-> Text(<<"Violation not found">>)])

GetById(p, id) ==
  /\ Free(p)
  /\ Quiet
  /\ Finish(p, Event("fetch", "rest", p, [id |-> id], {}, FetchResponse(kv, id)))
  /\ UNCHANGED <<kv, clock, history, cleared>>

(* ---------------------------- GET /api/stats -------------------------- *)
\* 24 * 60 * 60 * 1000: the milliseconds of a day.
Day == 24 * 60 * 60 * 1000

\* acc[key] = (acc[key] || 0) + 1 over the keys of the records, in order:
\* for every key that occurs, the number of times it occurs. An undefined
\* key is the property name "undefined".
CountBy(keys) ==
  Obj([k \in {JsToString(keys[i]) : i \in DOMAIN keys} |->
         Num(Cardinality({i \in DOMAIN keys : JsToString(keys[i]) = k}))])

\* v.violation.jurisdiction of a record, the list itself.
JurisdictionOf(v) == Field(v.violation, "jurisdiction")

\* v.violation.jurisdiction.forEach(j => acc[j] = (acc[j] || 0) + 1) over the
\* records: every entry of every list adds one to its bucket.
CountByJurisdiction(violations) ==
  LET entries == {<<i, n>> \in (DOMAIN violations) \X (1..5) :
                    n \in DOMAIN JurisdictionOf(violations[i]).a}
  IN Obj([j \in {JurisdictionOf(violations[e[1]]).a[e[2]] : e \in entries} |->
            Num(Cardinality({e \in entries :
                               JurisdictionOf(violations[e[1]]).a[e[2]] = j}))])

\* forEach of a jurisdiction that is undefined throws.
StatsThrows(violations) ==
  \E i \in DOMAIN violations : JurisdictionOf(violations[i]).t # "array"

\* violations.filter(v => new Date(v.timestamp) > yesterday).length
Recent24h(violations, now) ==
  Cardinality({i \in DOMAIN violations : violations[i].timestamp.iso > now - Day})

\* The ViolationStats literal and the response.
StatsResponse(violations, now) ==
  IF StatsThrows(violations) THEN UnhandledError
  ELSE JsonResponse(200,
         [total |-> Num(Len(violations)),
          bySeverity |-> CountBy([i \in DOMAIN violations |->
                                    Field(violations[i].violation, "severity")]),
          byJurisdiction |-> CountByJurisdiction(violations),
          byAiTool |-> CountBy([i \in DOMAIN violations |->
                                  violations[i].responsibleOrganization]),
          recent24h |-> Num(Recent24h(violations, now))])

\* new Date(), then the first store call: get('violation_list').
StatsBegin(p) ==
  /\ Free(p)
  /\ Quiet
  /\ \E now \in clock..MaxClock :
       /\ clock' = now
       /\ loc' = [loc EXCEPT ![p] =
            [op |-> "stats", now |-> now, remaining |-> ParseIdsOrEmpty(kv),
             violations |-> <<>>]]
  /\ pc' = [pc EXCEPT ![p] = "s_fetch"]
  /\ resp' = NoResp
  /\ UNCHANGED <<kv, history, cleared>>

\* A loop turn that would not check what the store returned: a missing
\* record would end the request with an error.
StatsFetchUnchecked(p) ==
  /\ pc[p] = "s_fetch"
  /\ loc[p].remaining # <<>>
  /\ LET key == RecordKey(Head(loc[p].remaining))
     IN IF key \in DOMAIN kv
          THEN /\ loc' = [loc EXCEPT ![p].remaining = Tail(@),
                                     ![p].violations = Append(@, JsonParse(kv[key]))]
               /\ resp' = NoResp
               /\ pc' = pc
        ELSE Finish(p, Event("stats", "rest", p, [now |-> loc[p].now], {},
                             UnhandledError)
                       @@ [fetched |-> loc[p].violations])
  /\ UNCHANGED <<kv, clock, history, cleared>>

\* One turn of the loop: get `violation:${id}` and keep it if it is there.
StatsFetch(p) ==
  /\ pc[p] = "s_fetch"
  /\ loc[p].remaining # <<>>
  /\ LET key == RecordKey(Head(loc[p].remaining))
     IN loc' = [loc EXCEPT ![p].remaining = Tail(@),
                           ![p].violations =
                              IF key \in DOMAIN kv THEN Append(@, JsonParse(kv[key]))
                              ELSE @]
  /\ resp' = NoResp
  /\ UNCHANGED <<kv, clock, pc, history, cleared>>

\* After the loop: the statistics and the response.
StatsFinish(p) ==
  /\ pc[p] = "s_fetch"
  /\ loc[p].remaining = <<>>
  /\ Finish(p, Event("stats", "rest", p, [now |-> loc[p].now], {},
                     StatsResponse(loc[p].violations, loc[p].now))
               @@ [fetched |-> loc[p].violations])
  /\ UNCHANGED <<kv, clock, history, cleared>>

\* A store read of the statistics rejects: the handler has no catch.
StatsStoreFails(p) ==
  /\ pc[p] = "s_fetch"
  /\ Alone(p)
  /\ Finish(p, Event("stats", "rest", p, [failed |-> TRUE], {}, UnhandledError)
               @@ [failed |-> TRUE])
  /\ UNCHANGED <<kv, clock, history, cleared>>

(* ------------------------- POST /mcp, the envelope -------------------- *)
\* The Accept header: none, or the media types it lists.
AcceptInputs ==
  {Undefined, Text(<<"application/json">>),
   Text(<<"application/json", "text/event-stream">>)}

\* accept?.includes('text/event-stream')
WantsStream(accept) ==
  accept.t = "string" /\ "text/event-stream" \in Range(accept.parts)

\* The tools the switch on the tool name knows.
ToolNames ==
  {"report_violation", "list_statutes", "get_violation_stats", "list_violations"}

\* A JSON-RPC request object.
Envelope(jsonrpc, method, id, params) ==
  Obj([jsonrpc |-> jsonrpc, method |-> method, id |-> id, params |-> params])

\* params of a tools/call.
CallParams(name, args) == Obj([name |-> name, arguments |-> args])

\* A report_violation call the registry accepts.
ValidReport ==
  CallParams(Str("report_violation"),
    Obj([statute |-> Str("Rome Statute Article 7"),
         responsible_organization |-> Str("TestAI"),
         offending_content |-> Str("x")]))

\* Bodies of POST /mcp. Envelopes with every method, with and without
\* params, with the ids 1, 0 and null; a valid report_violation call with one
\* envelope field missing or wrong at a time; JSON that is no object (null,
\* an array); and a body that is no JSON.
McpBodies ==
  {Envelope(Str("2.0"), m, i, Undefined) :
     m \in {Str("initialize"), Str("tools/list"), Str("tools/call"),
            Str("resources/list")},
     i \in {Num(1), Num(0), Null}}
  \cup
  {Envelope(Str("2.0"), Str("initialize"), Num(1),
            Obj([protocolVersion |-> Str("2025-03-26")]))}
  \cup
  {Envelope(Str("2.0"), Str("tools/call"), i, CallParams(n, Undefined)) :
     n \in {Undefined, Str(""), Str("list_statutes"), Str("delete_violation")},
     i \in {Num(1), Num(0), Null}}
  \cup
  {Envelope(Str("2.0"), Str("tools/call"), Num(1), Null)}
  \cup
  {Envelope(j, Str("tools/call"), Num(1), ValidReport) :
     j \in {Str("1.0"), Undefined}}
  \cup
  {Envelope(Str("2.0"), m, Num(1), ValidReport) : m \in {Str(""), Undefined}}
  \cup
  {Envelope(Str("2.0"), Str("tools/call"), Undefined, ValidReport)}
  \cup
  {Null, Arr(<<>>), Malformed}

\* body.k: a property of the parsed body; a JSON value that is no object
\* has none of the envelope's properties.
BodyProp(body, k) == IF body.t = "object" THEN Prop(body, k) ELSE Undefined

\* const { name, arguments: args } = params || {}
ParamsOrEmpty(body) ==
  IF Falsy(BodyProp(body, "params")) THEN Obj(NoProps) ELSE BodyProp(body, "params")

\* Every request is sent on as a call of list_statutes.
McpDispatchAll(body) == "list_statutes"

\* Where the handler takes a body: c.req.json() throws for a body that is no
\* JSON, body.jsonrpc throws for null, then the envelope check, the switch
\* on the method and, for tools/call, the switch on the tool name.
McpDispatch(body) ==
  IF body.t = "malformed" THEN "json_throws"
  ELSE IF body.t = "null" THEN "body_throws"
  ELSE IF \/ BodyProp(body, "jsonrpc") # Str("2.0")
          \/ Falsy(BodyProp(body, "method"))
          \/ BodyProp(body, "id") = Undefined
    THEN "invalid_request"
  ELSE IF BodyProp(body, "method") = Str("initialize") THEN "initialize"
  ELSE IF BodyProp(body, "method") = Str("tools/list") THEN "tools/list"
  ELSE IF BodyProp(body, "method") = Str("tools/call")
    THEN LET name == Prop(ParamsOrEmpty(body), "name")
         IN IF Falsy(name) THEN "missing_name"
            ELSE IF name.s \in ToolNames THEN name.s
            ELSE "tool_not_found"
  ELSE "method_not_found"

\* c.newResponse(`event: message\ndata: ${JSON.stringify(response)}\n\n`)
\* with Content-Type text/event-stream: one frame, status 200.
SseResponse(response) ==
  [status |-> 200,
   body |-> [sse |-> <<[event |-> "message", data |-> StripUndefined(response)]>>]]

sendMcpResponse(response, wantsStream) ==
  IF wantsStream THEN SseResponse(response) ELSE JsonResponse(200, response)

\* The answer to an envelope that fails the check: the id is body.id || null.
McpInvalidRequest(body, wantsStream) ==
  LET errorResponse ==
        [jsonrpc |-> Str("2.0"),
         id |-> IF Falsy(BodyProp(body, "id")) THEN Null ELSE BodyProp(body, "id"),
         error |-> [code |-> -32600,
                    message |-> Text(<<"Invalid Request - must be JSON-RPC 2.0 format">>)]]
  IN IF wantsStream THEN SseResponse(errorResponse)
     ELSE JsonResponse(400, errorResponse)

McpInitialize(id, params, wantsStream) ==
  LET requested == IF Falsy(params) THEN Undefined ELSE Prop(params, "protocolVersion")
  IN sendMcpResponse(
       [jsonrpc |-> Str("2.0"), id |-> id,
        result |-> [protocolVersion |-> IF Falsy(requested) THEN Str("2024-11-05")
                                        ELSE requested,
                    capabilities |-> [tools |-> NoProps],
                    serverInfo |-> [name |-> Str("mcpolice"),
                                    version |-> Str("1.0.0")]]],
       wantsStream)

\* The two tools the list names, with the required inputs of the first.
McpToolsList(id, wantsStream) ==
  sendMcpResponse(
    [jsonrpc |-> Str("2.0"), id |-> id,
     result |-> [tools |->
       <<[name |-> Str("report_violation"),
          inputSchema |->
            [type |-> Str("object"),
             properties |-> {"statute", "responsible_organization",
                             "offending_content"},
             required |-> <<"statute", "responsible_organization",
                            "offending_content">>]],
         [name |-> Str("list_statutes"),
          inputSchema |-> [type |-> Str("object"), properties |-> {},
                           additionalProperties |-> Bool(FALSE)]]>>]],
    wantsStream)

McpMissingToolName(id) ==
  RpcError(400, id, -32602, Text(<<"Invalid params - missing tool name">>))

\* The registry's keys in the order of the object literal, the order
\* Object.values(INTERNATIONAL_STATUTES) follows.
StatuteOrder ==
  <<"Rome Statute Article 6", "Rome Statute Article 7", "Rome Statute Article 8",
    "Rome Statute Article 8 bis", "IAEA Statute Article XII.C", "INFCIRC/153",
    "INFCIRC/540", "NPT Article III",
    "International Humanitarian Law (Geneva Conventions, Protocols)",
    "Universal Declaration of Human Rights Article 25",
    "Fourth Geneva Convention Article 33", "1954 Hague Convention Article 4",
    "1999 Second Protocol Article 15", "1970 Convention Article 3",
    "World Heritage Convention Article 11(4)">>

getAllStatutes == [i \in DOMAIN StatuteOrder |-> INTERNATIONAL_STATUTES[StatuteOrder[i]]]

\* The list_statutes result: one block of text for each statute.
McpListStatutes(id) ==
  JsonResponse(200,
    [jsonrpc |-> Str("2.0"), id |-> id,
     result |-> [content |-> <<[type |-> "text",
                   text |-> Text([i \in DOMAIN getAllStatutes |->
                              "**" \o getAllStatutes[i].article \o "** ("
                                \o getAllStatutes[i].organization \o ")\nSeverity: "
                                \o getAllStatutes[i].severity \o "\nDescription: "
                                \o getAllStatutes[i].description \o "\n"])]>>,
                 isError |-> Bool(FALSE)]])

McpToolNotFound(id, name) ==
  RpcError(404, id, -32601, Text(<<"Tool '", JsToString(name), "' not found">>))

McpMethodNotFound(id, method) ==
  RpcError(404, id, -32601, Text(<<"Method '", JsToString(method), "' not found">>))

\* The response to a request that is answered without a store call.
McpAnswer(body, accept) ==
  LET to == McpDispatch(body)
      id == BodyProp(body, "id")
  IN CASE to = "json_throws" ->
            McpInternalError("Unexpected token in JSON")
       [] to = "body_throws" ->
            McpInternalError("Cannot read properties of null (reading 'jsonrpc')")
       [] to = "invalid_request" -> McpInvalidRequest(body, WantsStream(accept))
       [] to = "initialize" ->
            McpInitialize(id, BodyProp(body, "params"), WantsStream(accept))
       [] to = "tools/list" -> McpToolsList(id, WantsStream(accept))
       [] to = "missing_name" -> McpMissingToolName(id)
       [] to = "list_statutes" -> McpListStatutes(id)
       [] to = "tool_not_found" ->
            McpToolNotFound(id, Prop(ParamsOrEmpty(body), "name"))
       [] to = "method_not_found" ->
            McpMethodNotFound(id, BodyProp(body, "method"))

\* A request the handler answers without a store call. The tools that call
\* the store are the actions that follow and McpReportBegin.
McpRequest(p, body, accept) ==
  /\ Free(p)
  /\ Quiet
  /\ McpDispatch(body) \notin {"report_violation", "get_violation_stats",
                               "list_violations"}
  /\ Finish(p, Event("mcp", "mcp", p, [body |-> body, accept |-> accept], {},
                     McpAnswer(body, accept))
               @@ [to |-> McpDispatch(body)])
  /\ UNCHANGED <<kv, clock, history, cleared>>

(* ------ POST /mcp, tools/call get_violation_stats, list_violations ---- *)
\* The `arguments` of the two tools: left out, empty, a limit, a severity.
ListArguments ==
  {Undefined, Obj(NoProps), Obj([limit |-> Num(1)]),
   Obj([severity |-> Str("CRITICAL")])}

\* c.json({jsonrpc, id, result: {content: [{type: 'text', text}], isError: false}})
McpTextResult(id, text) ==
  JsonResponse(200,
    [jsonrpc |-> Str("2.0"), id |-> id,
     result |-> [content |-> <<[type |-> "text", text |-> text]>>,
                 isError |-> Bool(FALSE)]])

RECURSIVE FirstOccurrences(_)
\* The keys of an object filled by acc[key] = ..., in the order in which
\* they were first set: the order of Object.entries.
FirstOccurrences(keys) ==
  IF keys = <<>> THEN <<>>
  ELSE LET front == FirstOccurrences(SubSeq(keys, 1, Len(keys) - 1))
           last == keys[Len(keys)]
       IN IF last \in Range(front) THEN front ELSE Append(front, last)

\* Object.entries(buckets).map(([k, count]) => `- ${k}: ${count}`): the
\* lines of a bucket object whose keys were set in the order given.
BucketLines(keys) ==
  LET names == FirstOccurrences([i \in DOMAIN keys |-> JsToString(keys[i])])
  IN [i \in DOMAIN names |->
        "- " \o names[i] \o ": " \o ToString(CountBy(keys).props[names[i]].n)]

\* lines.join('\n') || 'No violations reported'
LinesOrNone(lines) == IF lines = <<>> THEN <<"No violations reported">> ELSE lines

\* The text of the get_violation_stats result.
McpStatsResponse(id, violations, now) ==
  McpTextResult(id,
    Text(<<"**Total Violations:** ", ToString(Len(violations)), "**By Severity:**">>
         \o LinesOrNone(BucketLines([i \in DOMAIN violations |->
                          Field(violations[i].violation, "severity")]))
         \o <<"**By Organization:**">>
         \o LinesOrNone(BucketLines([i \in DOMAIN violations |->
                          violations[i].responsibleOrganization]))
         \o <<"- Last 24 hours: ", ToString(Recent24h(violations, now)),
              " violations">>))

\* const { limit = 10, severity } = args: the default stands in for undefined.
LimitOrDefault(args) ==
  IF Prop(args, "limit") = Undefined THEN 10 ELSE Prop(args, "limit").n

\* The block of text of one record in the list_violations result. The
\* contents of the model are shorter than 100 characters, so substring(0, 100)
\* yields them whole and no '...' follows; the date is written by its instant.
ViolationLines(v, index) ==
  <<"**" \o ToString(index) \o ". " \o JsToString(v.statute) \o "** ("
      \o JsToString(Field(v.violation, "severity")) \o ")",
    "Organization: " \o JsToString(v.responsibleOrganization),
    "Reported: " \o ToString(v.timestamp.iso),
    "Content: " \o JsToString(v.offendingContent),
    "ID: " \o JsToString(v.id)>>

RECURSIVE Concat(_)
\* The pieces of a list of lists, in order.
Concat(lists) ==
  IF lists = <<>> THEN <<>> ELSE Head(lists) \o Concat(Tail(lists))

\* Filter, slice(0, limit) and the text of the list_violations result.
McpListResponse(id, violations, args) ==
  LET filtered == FilterSeverity(violations, Prop(args, "severity"))
      recentViolations == Slice(filtered, 0, LimitOrDefault(args))
  IN IF Len(recentViolations) = 0
       THEN McpTextResult(id,
              Text(<<"**No violations found matching your criteria.**",
                     "MCPolice is ready to receive violation reports from AI tools via the MCP protocol.">>))
     ELSE McpTextResult(id,
            Text(<<"**Recent Violation Reports (", ToString(Len(recentViolations)),
                   "/", ToString(Len(filtered)), "):**">>
                 \o Concat([i \in DOMAIN recentViolations |->
                              ViolationLines(recentViolations[i], i)])
                 \o <<"Use the violation ID to get more details about specific cases.">>))

\* A well-formed tools/call of one of the two tools up to its first store
\* call. list_violations destructures args first, which throws when the
\* call has no arguments.
McpToolBegin(p, id, name, args) ==
  /\ Free(p)
  /\ Quiet
  /\ IF name = "list_violations" /\ args.t # "object"
       THEN /\ Finish(p, Event(name, "mcp", p, args, {},
                 McpInternalError("Cannot destructure property 'limit' of 'args' as it is undefined.")))
            /\ UNCHANGED <<kv, clock, history, cleared>>
     ELSE /\ loc' = [loc EXCEPT ![p] =
                [op |-> name, rpcId |-> id, req |-> args,
                 remaining |-> ParseIdsOrEmpty(kv), violations |-> <<>>]]
          /\ pc' = [pc EXCEPT ![p] = "m_fetch"]
          /\ resp' = NoResp
          /\ UNCHANGED <<kv, clock, history, cleared>>

\* One turn of the loop: get `violation:${id}` and keep it if it is there.
McpToolFetch(p) ==
  /\ pc[p] = "m_fetch"
  /\ loc[p].remaining # <<>>
  /\ LET key == RecordKey(Head(loc[p].remaining))
     IN loc' = [loc EXCEPT ![p].remaining = Tail(@),
                           ![p].violations =
                              IF key \in DOMAIN kv THEN Append(@, JsonParse(kv[key]))
                              ELSE @]
  /\ resp' = NoResp
  /\ UNCHANGED <<kv, clock, pc, history, cleared>>

\* After the loop: get_violation_stats reads the clock, both build the text.
McpToolFinish(p) ==
  /\ pc[p] = "m_fetch"
  /\ loc[p].remaining = <<>>
  /\ IF loc[p].op = "get_violation_stats"
       THEN \E now \in clock..MaxClock :
              /\ clock' = now
              /\ Finish(p, Event(loc[p].op, "mcp", p, loc[p].req, {},
                   McpStatsResponse(loc[p].rpcId, loc[p].violations, now))
                   @@ [fetched |-> loc[p].violations])
     ELSE /\ clock' = clock
          /\ Finish(p, Event(loc[p].op, "mcp", p, loc[p].req, {},
               McpListResponse(loc[p].rpcId, loc[p].violations, loc[p].req))
               @@ [fetched |-> loc[p].violations])
  /\ UNCHANGED <<kv, history, cleared>>

\* A store read of one of the two tools rejects: the catch of the /mcp
\* handler answers.
McpToolStoreFails(p) ==
  /\ pc[p] = "m_fetch"
  /\ Alone(p)
  /\ Finish(p, Event(loc[p].op, "mcp", p, loc[p].req, {},
                     McpInternalError(StoreErrorText))
               @@ [failed |-> TRUE])
  /\ UNCHANGED <<kv, clock, history, cleared>>

(* -------------------------- GET /api/statutes ------------------------- *)
\* c.json({statutes: getAllStatutes().map(s => ({article, organization,
\* description, severity}))})
StatutesResponse ==
  JsonResponse(200,
    [statutes |-> [i \in DOMAIN getAllStatutes |->
                     [article |-> Str(getAllStatutes[i].article),
                      organization |-> Str(getAllStatutes[i].organization),
                      description |-> Str(getAllStatutes[i].description),
                      severity |-> Str(getAllStatutes[i].severity)]]])

RestStatutes(p) ==
  /\ Free(p)
  /\ Quiet
  /\ Finish(p, Event("statutes", "rest", p, Obj(NoProps), {}, StatutesResponse))
  /\ UNCHANGED <<kv, clock, history, cleared>>

(* ------------------- DELETE /api/admin/clear-data --------------------- *)
ClearBegin(p) ==
  /\ Free(p)
  /\ cleared.phase = "never"
  /\ loc' = [loc EXCEPT ![p] =
       [op |-> "clear", violationIds |-> ParseIdsOrEmpty(kv),
        remaining |-> ParseIdsOrEmpty(kv), wrote |-> {}]]
  /\ pc' = [pc EXCEPT ![p] = "c_delete"]
  /\ resp' = NoResp
  /\ cleared' = [phase |-> "begun", n |-> 0, alone |-> (ReportsInFlight = {})]
  /\ history' = <<>>
  /\ UNCHANGED <<kv, clock>>

\* One turn of the loop: await VIOLATIONS_KV.delete(`violation:${id}`)
ClearDelete(p) ==
  /\ pc[p] = "c_delete"
  /\ loc[p].remaining # <<>>
  /\ LET key == RecordKey(Head(loc[p].remaining))
     IN /\ kv' = KvDelete(kv, key)
        /\ loc' = [loc EXCEPT ![p].remaining = Tail(@), ![p].wrote = @ \cup {key}]
  /\ resp' = NoResp
  /\ UNCHANGED <<clock, pc, history, cleared>>

\* await VIOLATIONS_KV.delete('violation_list'), then the response.
ClearDeleteList(p) ==
  /\ pc[p] = "c_delete"
  /\ loc[p].remaining = <<>>
  /\ kv' = KvDelete(kv, ListKey)
  /\ Finish(p, Event("clear", "rest", p, [n |-> Len(loc[p].violationIds)],
                     loc[p].wrote \cup {ListKey},
                     JsonResponse(200,
                       [success |-> Bool(TRUE),
                        message |-> Text(<<"Cleared ", ToString(Len(loc[p].violationIds)),
                                           " violations from database">>)])))
  /\ cleared' = [phase |-> IF ReportsInFlight = {} THEN "clean" ELSE "overlap",
                  n |-> Len(loc[p].violationIds),
                  alone |-> cleared.alone]
  /\ UNCHANGED <<clock, history>>

\* A store call of the clear rejects: caught, nothing is undone.
ClearStoreFails(p) ==
  /\ pc[p] = "c_delete"
  /\ Alone(p)
  /\ Finish(p, Event("clear", "rest", p, [n |-> Len(loc[p].violationIds)],
                     loc[p].wrote,
                     JsonResponse(500, [error |-> Text(<<"Failed to clear data">>)]))
               @@ [failed |-> TRUE])
  /\ UNCHANGED <<kv, clock, history, cleared>>

\* app.use('*', logger()): after the handler, the response is logged and sent.
LogResponse ==
  /\ resp.op # "none"
  /\ resp' = NoResp
  /\ UNCHANGED <<kv, clock, pc, loc, history, cleared>>

Next ==
  \/ \E p \in Procs, body \in RestBodies : RestReportBegin(p, body)
  \/ \E p \in Procs, id \in RpcIds, args \in ToolArguments : McpReportBegin(p, id, args)
  \/ \E p \in Procs : PutRecord(p)
  \/ \E p \in Procs : GetList(p)
  \/ \E p \in Procs : PutList(p)
  \/ \E p \in Procs : QueryBegin(p)
  \/ \E p \in Procs : QueryFetch(p)
  \/ \E p \in Procs : QueryFinish(p)
  \/ \E p \in Procs, id \in FetchIds : GetById(p, id)
  \/ \E p \in Procs : StatsBegin(p)
  \/ \E p \in Procs : StatsFetch(p)
  \/ \E p \in Procs : StatsFinish(p)
  \/ \E p \in Procs : ClearBegin(p)
  \/ \E p \in Procs : ClearDelete(p)
  \/ \E p \in Procs : ClearDeleteList(p)
  \/ LogResponse

Spec == Init /\ [][Next]_vars

\* The same with store calls that may reject.
StoreFails ==
  \/ \E p \in Procs : ReportStoreFails(p)
  \/ \E p \in Procs : QueryStoreFails(p)
  \/ \E p \in Procs : StatsStoreFails(p)
  \/ \E p \in Procs : ClearStoreFails(p)

FaultyNext == Next \/ StoreFails

FaultySpec == Init /\ [][FaultyNext]_vars

\* The requests that write the store, with store calls that may reject.
WriteFaultyNext ==
  \/ \E p \in Procs, body \in RestBodies : RestReportBegin(p, body)
  \/ \E p \in Procs, id \in RpcIds, args \in ToolArguments : McpReportBegin(p, id, args)
  \/ \E p \in Procs : PutRecord(p)
  \/ \E p \in Procs : GetList(p)
  \/ \E p \in Procs : PutList(p)
  \/ \E p \in Procs : ClearBegin(p)
  \/ \E p \in Procs : ClearDelete(p)
  \/ \E p \in Procs : ClearDeleteList(p)
  \/ \E p \in Procs : ReportStoreFails(p)
  \/ \E p \in Procs : ClearStoreFails(p)
  \/ LogResponse

WriteFaultySpec == Init /\ [][WriteFaultyNext]_vars

\* The /mcp endpoint alone.
McpNext ==
  \/ \E p \in Procs, body \in McpBodies, accept \in AcceptInputs :
       McpRequest(p, body, accept)
  \/ \E p \in Procs, id \in RpcIds, args \in ToolArguments : McpReportBegin(p, id, args)
  \/ \E p \in Procs : PutRecord(p)
  \/ \E p \in Procs : GetList(p)
  \/ \E p \in Procs : PutList(p)
  \/ \E p \in Procs, id \in RpcIds, args \in ListArguments,
        name \in {"get_violation_stats", "list_violations"} :
       McpToolBegin(p, id, name, args)
  \/ \E p \in Procs : McpToolFetch(p)
  \/ \E p \in Procs : McpToolFinish(p)
  \/ LogResponse

McpSpec == Init /\ [][McpNext]_vars

\* The requests that read, beside the REST submissions that fill the store,
\* with store reads that may reject.
ReadNext ==
  \/ \E p \in Procs, body \in RestBodies : RestReportBegin(p, body)
  \/ \E p \in Procs : PutRecord(p)
  \/ \E p \in Procs : GetList(p)
  \/ \E p \in Procs : PutList(p)
  \/ \E p \in Procs : QueryBegin(p)
  \/ \E p \in Procs : QueryFetch(p)
  \/ \E p \in Procs : QueryFinish(p)
  \/ \E p \in Procs : QueryStoreFails(p)
  \/ \E p \in Procs, id \in FetchIds : GetById(p, id)
  \/ \E p \in Procs : StatsBegin(p)
  \/ \E p \in Procs : StatsFetch(p)
  \/ \E p \in Procs : StatsFinish(p)
  \/ \E p \in Procs : StatsStoreFails(p)
  \/ \E p \in Procs : RestStatutes(p)
  \/ \E p \in Procs, body \in McpBodies, accept \in AcceptInputs :
       McpRequest(p, body, accept)
  \/ \E p \in Procs, id \in RpcIds, args \in ListArguments,
        name \in {"get_violation_stats", "list_violations"} :
       McpToolBegin(p, id, name, args)
  \/ \E p \in Procs : McpToolFetch(p)
  \/ \E p \in Procs : McpToolFinish(p)
  \/ \E p \in Procs : McpToolStoreFails(p)
  \/ LogResponse

ReadSpec == Init /\ [][ReadNext]_vars

(* ------------------------- the registry lookup ------------------------ *)
\* Strings a caller may look up: the registered names; each of them with a
\* space after it, a space before it, and a letter after it; names in another
\* case; shortened names; names the registry does not have; the empty
\* string; and the property names the registry object inherits.
LookupInputs ==
  DOMAIN INTERNATIONAL_STATUTES
  \cup {k \o " " : k \in DOMAIN INTERNATIONAL_STATUTES}
  \cup {" " \o k : k \in DOMAIN INTERNATIONAL_STATUTES}
  \cup {k \o "s" : k \in DOMAIN INTERNATIONAL_STATUTES}
  \cup {"rome statute article 7", "ROME STATUTE ARTICLE 7", "Rome statute Article 7",
        "infcirc/540", "Infcirc/540", "npt article iii", "NPT Article iii",
        "Rome Statute Article", "Rome Statute", "INFCIRC", "Article 7",
        "Nonexistent Statute", "Rome Statute Article 9", "INFCIRC/66", ""}
  \cup ObjectPrototypeKeys

\* A caller picks the string to look up.
LookupInit ==
  /\ kv = [k \in {} |-> Null]
  /\ clock = 0
  /\ pc = [p \in Procs |-> "idle"]
  /\ loc = [p \in Procs |-> NoLocals]
  /\ resp \in {[op |-> "lookup", statute |-> s] : s \in LookupInputs}
  /\ history = <<>>
  /\ cleared = [phase |-> "never", n |-> 0, alone |-> TRUE]

\* The call getStatuteInfo(statute) and what it returns.
Lookup ==
  /\ resp.op = "lookup"
  /\ resp' = [op |-> "looked_up", statute |-> resp.statute,
              info |-> getStatuteInfo(resp.statute)]
  /\ UNCHANGED <<kv, clock, pc, loc, history, cleared>>

LookupSpec == LookupInit /\ [][Lookup]_vars

(* ------------------------------ properties ---------------------------- *)
RequiredInputs == {"statute", "responsible_organization", "offending_content"}

\* A submission that lacks a required input: one of them is empty or absent,
\* or the request carries no object to read them from.
LacksInput(req) ==
  \/ req.t # "object"
  \/ \E k \in RequiredInputs : Falsy(Prop(req, k))

\* The error text of a rejection, on either route.
ErrorText(ev) == IF ev.via = "rest" THEN ev.body.error ELSE ev.body.error.message

\* The record stored under an id.
Stored(id) == JsonParse(kv[RecordKey(id)])

\* What a record keeps of a registry entry.
Snapshot(e) ==
  [description |-> Str(e.description),
   severity |-> Str(e.severity),
   jurisdiction |-> Arr(e.jurisdiction)]

\* C1: a submission, on either route, in which a required input is empty or
\* absent is answered with a validation error (status 400) and has written or
\* deleted no key of the store.
C1_MissingInputRejected ==
  (resp.op = "report" /\ LacksInput(resp.req))
    => (resp.status = 400 /\ resp.wrote = {})

\* C2: a submission whose three inputs are non-empty and whose statute has no
\* registry entry is answered with status 400 and an error text that contains
\* the statute name, and has written no key of the store.
C2_UnknownStatuteRejected ==
  (/\ resp.op = "report"
   /\ ~LacksInput(resp.req)
   /\ JsToString(Prop(resp.req, "statute")) \notin DOMAIN INTERNATIONAL_STATUTES)
    => (/\ resp.status = 400
        /\ JsToString(Prop(resp.req, "statute")) \in Range(ErrorText(resp).parts)
        /\ resp.wrote = {})

\* The severity and the organization a success response reports: two fields
\* of the REST body, two pieces of the /mcp result text.
Reported(ev) ==
  IF ev.via = "rest"
    THEN [severity |-> JsToString(Field(ev.body, "severity")),
          organization |-> JsToString(Field(ev.body, "organization"))]
  ELSE LET text == ev.body.result.content[1].text.parts
       IN [severity |-> text[7], organization |-> text[9]]

\* C3: every stored record whose statute is in the registry carries that
\* entry's description, severity and jurisdiction, and the success response
\* of a submission with a registered statute reports the entry's severity and
\* organization.
C3_RegistrySnapshot ==
  /\ \A key \in DOMAIN kv \ {ListKey} :
       LET rec == JsonParse(kv[key])
       IN rec.statute.s \in DOMAIN INTERNATIONAL_STATUTES
            => rec.violation = Snapshot(INTERNATIONAL_STATUTES[rec.statute.s])
  /\ (/\ resp.op = "report"
      /\ resp.status = 200
      /\ JsToString(Prop(resp.req, "statute")) \in DOMAIN INTERNATIONAL_STATUTES)
       => LET e == INTERNATIONAL_STATUTES[JsToString(Prop(resp.req, "statute"))]
          IN /\ Reported(resp) = [severity |-> e.severity,
                                  organization |-> e.organization]
             /\ resp.built.violation = Snapshot(e)

\* C3 happens: "Rome Statute Article 7" is submitted over REST, the answer is
\* success with severity CRITICAL and organization ICC, and the stored record
\* carries the entry's snapshot.
C3_Witness ==
  /\ resp.op = "report"
  /\ resp.via = "rest"
  /\ resp.status = 200
  /\ resp.req = Obj([statute |-> Str("Rome Statute Article 7"),
                     responsible_organization |-> Str("TestAI"),
                     offending_content |-> Str("x")])
  /\ resp.body.severity = Str("CRITICAL")
  /\ resp.body.organization = Str("ICC")
  /\ RecordKey(resp.built.id.s) \in DOMAIN kv
  /\ Stored(resp.built.id.s).violation =
       Snapshot(INTERNATIONAL_STATUTES["Rome Statute Article 7"])

Reverse(s) == [i \in 1..Len(s) |-> s[Len(s) + 1 - i]]

\* A record as a response carries it: through JSON.stringify and back.
AsJson(v) == JsonParse(StringifyReport(v))

\* A query without filters.
Unfiltered(req) == Falsy(req.severity) /\ Falsy(req.jurisdiction)

\* C4: from the empty store, after N >= 1 submissions answered with success
\* and nothing else under way, the unfiltered query with limit N and offset 0
\* answers the N submitted records, last submitted first, with total N and
\* hasMore false.
C4_QueryReturnsAllSubmitted ==
  (/\ resp.op = "query"
   /\ cleared.phase = "never"
   /\ Len(history) >= 1
   /\ Unfiltered(resp.req)
   /\ resp.req.offset = 0
   /\ resp.req.limit = Len(history))
    => (/\ resp.status = 200
        /\ resp.body.violations = Arr(Reverse([i \in 1..Len(history) |-> AsJson(history[i])]))
        /\ resp.body.total = Num(Len(history))
        /\ resp.body.hasMore = Bool(FALSE))

RecordKeys(store) == DOMAIN store \ {ListKey}

NoDuplicates(ids) == \A i, j \in DOMAIN ids : i # j => ids[i] # ids[j]

\* C5: whenever no request is under way, every id in the index has a record
\* under violation:<id>.
C5_IndexedIdsHaveRecords ==
  Quiet => \A i \in DOMAIN ParseIdsOrEmpty(kv) :
             RecordKey(ParseIdsOrEmpty(kv)[i]) \in DOMAIN kv

\* C6: the index write of a submission stores the list the submission read
\* earlier with its own id in front, whatever the index holds by then.
C6_IndexWriteUnguarded ==
  (resp.op = "report" /\ ListKey \in resp.wrote)
    => (/\ ParseIdsOrEmpty(kv) = resp.violationIds
        /\ Head(resp.violationIds) = resp.built.id.s)

\* C6 happens: two submissions with different ids were answered with success,
\* both records are stored, and the index lists only one of the ids.
C6_Witness ==
  /\ Quiet
  /\ cleared.phase = "never"
  /\ Len(history) = 2
  /\ history[1].id # history[2].id
  /\ \A i \in 1..2 : RecordKey(history[i].id.s) \in DOMAIN kv
  /\ Len(ParseIdsOrEmpty(kv)) = 1

\* A query answered with total 0 and an empty page.
EmptyPage(ev) ==
  /\ ev.status = 200
  /\ ev.body.total = Num(0)
  /\ ev.body.violations = Arr(<<>>)

\* C7 as stated: every query answered after a clear-data request has
\* succeeded reports total 0 and an empty page.
C7_QueryAfterClearEmpty ==
  (resp.op = "query" /\ cleared.phase \in {"clean", "overlap"}) => EmptyPage(resp)

\* C7 amended: every query answered after a clear-data request has succeeded
\* with no submission then under way, and before any further submission,
\* reports total 0 and an empty page, whatever its filters and pagination.
C7_QueryAfterQuietClearEmpty ==
  (resp.op = "query" /\ cleared.phase = "clean") => EmptyPage(resp)

\* C7 happens: a clear-data request deleted at least one id, no submission
\* was under way when it succeeded, and the next query reports total 0.
C7_Witness ==
  /\ resp.op = "query"
  /\ cleared.phase = "clean"
  /\ cleared.n >= 1
  /\ EmptyPage(resp)

\* C8: when a submission is answered with success, a fetch of its id returns
\* the record that submission built, field for field.
C8_FetchReturnsBuilt ==
  (resp.op = "report" /\ resp.status = 200)
    => FetchResponse(kv, resp.built.id.s) =
         [status |-> 200, body |-> AsJson(resp.built)]

\* C9: no submission writes its record under a key that already holds one,
\* and the index never lists an id twice.
C9_IdsUnique ==
  [][/\ \A p \in Procs :
          PutRecord(p) => RecordKey(loc[p].violation.id.s) \notin DOMAIN kv
     /\ NoDuplicates(ParseIdsOrEmpty(kv'))]_vars

\* C10: no step changes the content of a stored record, only a clear-data
\* request removes one, and a clear-data request that ran with no submission
\* under way leaves no record and no index.
C10_RecordsImmutable ==
  [][/\ \A key \in RecordKeys(kv) :
          IF key \in DOMAIN kv' THEN kv'[key] = kv[key]
          ELSE \E p \in Procs : ClearDelete(p)
     /\ (cleared'.phase = "clean" /\ cleared'.alone /\ cleared.phase = "begun")
          => DOMAIN kv' = {}]_vars

\* A record passes the filters of a query: its severity is the one asked for,
\* and the jurisdiction asked for is in its jurisdiction list.
PassesFilters(v, severity, jurisdiction) ==
  /\ Falsy(severity) \/ Field(v.violation, "severity") = severity
  /\ \/ Falsy(jurisdiction)
     \/ /\ Field(v.violation, "jurisdiction").t = "array"
        /\ jurisdiction.s \in Range(Field(v.violation, "jurisdiction").a)

\* The elements of a list at the positions offset <= i < offset + limit,
\* positions counted from 0.
Window(list, offset, limit) ==
  LET lo == Max(offset, 0)
      hi == Min(offset + limit, Len(list))
  IN IF lo < hi THEN SubSeq(list, lo + 1, hi) ELSE <<>>

\* C11: every query answers the window [offset, offset + limit) of the
\* fetched records that pass the filters, in index order, with total the
\* number of records that pass and hasMore exactly offset + limit < total.
C11_QueryPage ==
  resp.op = "query"
    => LET passing == SelectSeq(resp.fetched,
                        LAMBDA v : PassesFilters(v, resp.req.severity,
                                                 resp.req.jurisdiction))
       IN /\ resp.status = 200
          /\ resp.body.violations =
               Arr(Window(passing, resp.req.offset, resp.req.limit))
          /\ resp.body.total = Num(Len(passing))
          /\ resp.body.hasMore =
               Bool(resp.req.offset + resp.req.limit < Len(passing))

RECURSIVE SumOver(_, _)
\* The sum of the counts of a bucket object over a set of its keys.
SumOver(buckets, keys) ==
  IF keys = {} THEN 0
  ELSE LET k == CHOOSE x \in keys : TRUE
       IN buckets.props[k].n + SumOver(buckets, keys \ {k})

SumOfCounts(buckets) == SumOver(buckets, DOMAIN buckets.props)

\* C12: stats answers total = the number of records fetched through the
\* index, and bySeverity holds, for exactly the severities that occur, the
\* number of those records with that severity, so that its counts sum to total.
C12_StatsBySeverity ==
  resp.op = "stats"
    => /\ resp.status = 200
       /\ resp.body.total = Num(Len(resp.fetched))
       /\ LET severities == {Field(resp.fetched[i].violation, "severity") :
                               i \in DOMAIN resp.fetched}
          IN /\ DOMAIN resp.body.bySeverity.props =
                  {JsToString(s) : s \in severities}
             /\ \A s \in severities :
                  resp.body.bySeverity.props[JsToString(s)] =
                    Num(Cardinality({i \in DOMAIN resp.fetched :
                          Field(resp.fetched[i].violation, "severity") = s}))
       /\ SumOfCounts(resp.body.bySeverity) = Len(resp.fetched)

\* The number of jurisdiction entries of a list of records.
JurisdictionEntries(violations) ==
  Cardinality({<<i, n>> \in (DOMAIN violations) \X (1..5) :
                 n \in DOMAIN JurisdictionOf(violations[i]).a})

\* C13: in stats, byJurisdiction counts a record once for every entry of its
\* jurisdiction list, so its counts sum to the number of jurisdiction
\* entries of all fetched records.
C13_StatsByJurisdiction ==
  resp.op = "stats"
    => /\ resp.status = 200
       /\ \A j \in DOMAIN resp.body.byJurisdiction.props :
            resp.body.byJurisdiction.props[j].n =
              Cardinality({i \in DOMAIN resp.fetched :
                             j \in Range(JurisdictionOf(resp.fetched[i]).a)})
       /\ SumOfCounts(resp.body.byJurisdiction) = JurisdictionEntries(resp.fetched)

\* The JSON-RPC payload of an /mcp response: the JSON body, or the data of
\* the frame of a stream.
Payload(ev) == IF "sse" \in DOMAIN ev.body THEN ev.body.sse[1].data ELSE ev.body

\* The JSON-RPC error code of an /mcp response, 0 for a result.
ErrorCode(ev) == IF "error" \in DOMAIN Payload(ev) THEN Payload(ev).error.code ELSE 0

\* A parsed body lacks jsonrpc "2.0", a method or an id.
LacksEnvelope(body) ==
  \/ BodyProp(body, "jsonrpc") # Str("2.0")
  \/ BodyProp(body, "method") = Undefined
  \/ BodyProp(body, "id") = Undefined

\* C14: a POST /mcp whose parsed body lacks jsonrpc "2.0", a method or an id
\* is answered with error code -32600, reaches no method or tool handler and
\* writes no key.
C14_BadEnvelopeRejected ==
  (resp.op = "mcp" /\ resp.req.body.t # "malformed" /\ LacksEnvelope(resp.req.body))
    => /\ ErrorCode(resp) = -32600
       /\ resp.to = "invalid_request"
       /\ resp.wrote = {}

\* An answered /mcp request whose envelope passes the check.
WellFormed(ev) ==
  /\ ev.op = "mcp"
  /\ ev.req.body.t = "object"
  /\ ~LacksEnvelope(ev.req.body)
  /\ ~Falsy(BodyProp(ev.req.body, "method"))

\* The tool name of a tools/call, undefined when it has none.
ToolNameOf(body) == Prop(ParamsOrEmpty(body), "name")

\* A well-formed request for a method the endpoint does not have.
UnknownMethod(ev) ==
  /\ WellFormed(ev)
  /\ BodyProp(ev.req.body, "method") \notin
       {Str("initialize"), Str("tools/list"), Str("tools/call")}

\* A well-formed tools/call that names a tool the endpoint does not have.
UnknownTool(ev) ==
  /\ WellFormed(ev)
  /\ BodyProp(ev.req.body, "method") = Str("tools/call")
  /\ ~Falsy(ToolNameOf(ev.req.body))
  /\ ToolNameOf(ev.req.body).s \notin ToolNames

\* C15: a well-formed request for an unknown method is answered with error
\* -32601, a tools/call naming an unknown tool with error -32601 and HTTP
\* 404; both answers carry the id of the request and the step leaves the
\* store as it was.
C15_UnknownMethodOrTool ==
  [][/\ UnknownMethod(resp')
        => /\ ErrorCode(resp') = -32601
           /\ Payload(resp').id = BodyProp(resp'.req.body, "id")
           /\ kv' = kv
     /\ UnknownTool(resp')
        => /\ ErrorCode(resp') = -32601
           /\ resp'.status = 404
           /\ Payload(resp').id = BodyProp(resp'.req.body, "id")
           /\ kv' = kv]_vars

\* An unknown tool was called on a store that holds records, with an
\* Accept header that asks for a stream.
C15_Witness ==
  /\ UnknownTool(resp)
  /\ resp.status = 404
  /\ WantsStream(resp.req.accept)
  /\ ParseIdsOrEmpty(kv) # <<>>

\* C16: every tools/call with invalid params is answered with error -32602
\* and HTTP 400: a call without a tool name, and a report_violation call in
\* which a required field is empty or absent or which has no arguments.
C16_InvalidParamsRejected ==
  /\ (/\ WellFormed(resp)
      /\ BodyProp(resp.req.body, "method") = Str("tools/call")
      /\ Falsy(ToolNameOf(resp.req.body)))
       => (ErrorCode(resp) = -32602 /\ resp.status = 400)
  /\ (resp.op = "report" /\ resp.via = "mcp" /\ LacksInput(resp.req))
       => (ErrorCode(resp) = -32602 /\ resp.status = 400)

\* C17: the response to a POST /mcp whose Accept header includes
\* text/event-stream is exactly one frame, `event: message`, whose data is
\* the payload the same request gets without that header.
C17_StreamCarriesPayload ==
  (resp.op = "mcp" /\ WantsStream(resp.req.accept))
    => /\ "sse" \in DOMAIN resp.body
       /\ Len(resp.body.sse) = 1
       /\ resp.body.sse[1].event = "message"
       /\ resp.body.sse[1].data = McpAnswer(resp.req.body, Undefined).body

\* The message of an error response: the error of a REST body, the error
\* message of a JSON-RPC body, or the text the framework answers with.
MessageOf(ev) ==
  IF "error" \notin DOMAIN ev.body THEN ev.body
  ELSE IF ev.via = "rest" THEN ev.body.error
  ELSE ev.body.error.message

\* C18: a request in which a store call failed is answered with a 5xx status
\* and a message that does not contain the text of the store's error; a 4xx
\* status is never the answer to a store failure.
C18_StoreFailureIsGeneric5xx ==
  ("failed" \in DOMAIN resp)
    => /\ resp.status >= 500
       /\ StoreErrorText \notin Range(MessageOf(resp).parts)

\* The keys of the store's layout: the index and one key for every id.
LayoutKeys == {"violation_list"} \cup {"violation:" \o id : id \in Ids}

\* The keys a step puts, overwrites with another text, or deletes.
TouchedKeys(before, after) ==
  {k \in (DOMAIN before) \cup (DOMAIN after) :
     \/ k \notin DOMAIN before
     \/ k \notin DOMAIN after
     \/ before[k] # after[k]}

\* A store in which violation_list, when present, holds an array of ids and
\* every other key is violation:<id> and holds a record whose id is <id>.
WellLaidOut(store) ==
  /\ "violation_list" \in DOMAIN store
       => LET ids == JsonParse(store["violation_list"])
          IN /\ DOMAIN ids = 1..Len(ids)
             /\ \A i \in DOMAIN ids : ids[i] \in Ids
  /\ \A k \in (DOMAIN store) \ {"violation_list"} :
       \E id \in Ids : k = "violation:" \o id /\ JsonParse(store[k]).id = Str(id)

\* C19: every step writes or deletes only violation_list and keys
\* violation:<id>, and leaves a store in which violation_list holds an array
\* of ids and every violation:<id> holds the record whose id is <id>.
C19_StoreLayout ==
  [][/\ TouchedKeys(kv, kv') \subseteq LayoutKeys
     /\ WellLaidOut(kv')
     /\ resp'.op # "none" => resp'.wrote \subseteq LayoutKeys]_vars

\* The index lists two different ids, both records are stored, and a clear
\* has begun and deleted the first of them.
C19_Witness ==
  \E p \in Procs :
    /\ pc[p] = "c_delete"
    /\ Len(loc[p].violationIds) = 2
    /\ loc[p].violationIds[1] # loc[p].violationIds[2]
    /\ Len(loc[p].remaining) = 1
    /\ RecordKey(loc[p].violationIds[1]) \notin DOMAIN kv
    /\ RecordKey(loc[p].violationIds[2]) \in DOMAIN kv
    /\ ListKey \in DOMAIN kv

\* A value with the five properties of a StatuteInfo.
IsStatuteInfo(v) ==
  /\ v.t = "object"
  /\ DOMAIN v.props =
       {"organization", "article", "description", "severity", "jurisdiction"}

\* C20: getStatuteInfo(s) returns a StatuteInfo exactly when s is one of the
\* registered names, character for character, and then the entry's article
\* is s; for every other string it returns null.
C20_LookupExact ==
  resp.op = "looked_up"
    => IF resp.statute \in DOMAIN INTERNATIONAL_STATUTES
         THEN /\ IsStatuteInfo(resp.info)
              /\ resp.info.props.article = Str(resp.statute)
       ELSE resp.info = Null

\* The decision both submit handlers take on their inputs: the three inputs
\* are there and the lookup of the statute yields something.
Accepts(req) ==
  /\ ~LacksInput(req)
  /\ ~Falsy(getStatuteInfo(JsToString(Prop(req, "statute"))))

\* What an accepted submission stores, as a function of its inputs alone.
StoredFor(req) ==
  LET statuteInfo == getStatuteInfo(JsToString(Prop(req, "statute")))
  IN [statute |-> Prop(req, "statute"),
      responsibleOrganization |-> Prop(req, "responsible_organization"),
      offendingContent |-> Prop(req, "offending_content"),
      violation |-> [description |-> Prop(statuteInfo, "description"),
                     severity |-> Prop(statuteInfo, "severity"),
                     jurisdiction |-> Prop(statuteInfo, "jurisdiction")],
      detectedBy |-> Str(JsToString(Prop(req, "responsible_organization"))
                         \o " Safety System")]

\* C21: REST and tools/call decide alike on the same inputs. On either route
\* a submission is answered with success exactly when its inputs are
\* accepted; a submission answered with an error has written no key; one
\* answered with success has written a record with the statute, the
\* organization, the content, the snapshot and detectedBy its inputs
\* determine, and has put that record's id at the front of the index.
C21_TransportsAgree ==
  resp.op = "report"
    => /\ resp.status = 200 <=> Accepts(resp.req)
       /\ resp.status # 200 => resp.wrote = {}
       /\ resp.status = 200
            => /\ resp.wrote = {RecordKey(resp.built.id.s), ListKey}
               /\ [statute |-> resp.built.statute,
                   responsibleOrganization |-> resp.built.responsibleOrganization,
                   offendingContent |-> resp.built.offendingContent,
                   violation |-> resp.built.violation,
                   detectedBy |-> resp.built.metadata.detectedBy]
                    = StoredFor(resp.req)
               /\ Head(resp.violationIds) = resp.built.id.s

\* The creation instant of the record stored under an id.
CreatedAt(id) == Stored(id).timestamp.iso

\* C22: in every state, of two ids in violation_list whose records are
\* stored, the one nearer the front has the later or equal creation
\* timestamp.
C22_IndexMostRecentFirst ==
  LET ids == ParseIdsOrEmpty(kv)
  IN \A i, j \in DOMAIN ids :
       (/\ i < j
        /\ RecordKey(ids[i]) \in DOMAIN kv
        /\ RecordKey(ids[j]) \in DOMAIN kv)
         => CreatedAt(ids[i]) >= CreatedAt(ids[j])

\* Handler p ends its submission in this step with the index write.
IndexWritten(p) ==
  /\ pc[p] = "put_list"
  /\ pc'[p] = "idle"
  /\ "failed" \notin DOMAIN resp'

\* Handler p stops in this step between its two writes: the record is put,
\* the index write has not happened, a store call rejects.
StopsBetweenWrites(p) ==
  /\ pc[p] \in {"get_list", "put_list"}
  /\ pc'[p] = "idle"
  /\ "failed" \in DOMAIN resp'

\* C23: a submission puts its record before it reads and rewrites
\* violation_list; a submission that stops between the two writes leaves its
\* record stored and its id absent from the index; and the index write of a
\* submission in a run without clear-data leaves the new entry's record stored.
C23_RecordBeforeIndex ==
  [][\A p \in Procs :
       LET id == loc[p].violation.id.s
       IN /\ IndexWritten(p)
             => /\ RecordKey(id) \in loc[p].wrote
                /\ ListKey \notin loc[p].wrote
          /\ StopsBetweenWrites(p)
             => /\ RecordKey(id) \in DOMAIN kv'
                /\ JsonParse(kv'[RecordKey(id)]) = AsJson(loc[p].violation)
                /\ id \notin Range(ParseIdsOrEmpty(kv'))
          /\ (IndexWritten(p) /\ cleared.phase = "never")
             => RecordKey(Head(ParseIdsOrEmpty(kv'))) \in DOMAIN kv']_vars

\* Handler p takes one turn of the delete loop of clear-data in this step.
DeletesRecord(p) ==
  /\ pc[p] = "c_delete"
  /\ pc'[p] = "c_delete"
  /\ loc'[p] # loc[p]

\* Handler p ends clear-data in this step with success.
ClearSucceeds(p) ==
  /\ pc[p] = "c_delete"
  /\ pc'[p] = "idle"
  /\ "failed" \notin DOMAIN resp'

\* Handler p ends clear-data in this step because a delete rejects.
ClearFails(p) ==
  /\ pc[p] = "c_delete"
  /\ pc'[p] = "idle"
  /\ "failed" \in DOMAIN resp'

\* The last n elements of a list.
Suffix(list, n) == SubSeq(list, Len(list) - n + 1, Len(list))

ReadOps ==
  {"query", "fetch", "stats", "statutes", "mcp", "get_violation_stats",
   "list_violations"}

\* A step of a handler of a read request: the step that answers it, or a
\* step that begins it or takes it through its loop.
ReadStep ==
  \/ resp' # resp /\ resp'.op \in ReadOps
  \/ \E p \in Procs : /\ loc'[p] # loc[p]
                      /\ {loc[p].op, loc'[p].op} \cap ReadOps # {}

\* C25: no step of a read request (GET /api/violations, GET
\* /api/violations/:id, GET /api/stats, GET /api/statutes, list_statutes,
\* get_violation_stats, list_violations, initialize, tools/list and every
\* other /mcp answer but report_violation) puts or deletes a key, whatever
\* its parameters and whether it answers or fails.
C25_ReadsLeaveStore == [][ReadStep => kv' = kv]_vars

\* The statistics were asked for over a store of two indexed records and
\* the request failed on a store read: the store is as it was.
C25_Witness ==
  /\ resp.op = "stats" /\ "failed" \in DOMAIN resp
  /\ Len(ParseIdsOrEmpty(kv)) = 2
  /\ \A id \in Range(ParseIdsOrEmpty(kv)) : RecordKey(id) \in DOMAIN kv

\* The ids of the index that have a record, in index order.
PresentIds(store) ==
  SelectSeq(ParseIdsOrEmpty(store), LAMBDA id : RecordKey(id) \in DOMAIN store)

\* The records of those ids.
PresentRecords(store) ==
  [i \in DOMAIN PresentIds(store) |-> JsonParse(store[RecordKey(PresentIds(store)[i])])]

\* The ids that have a record but no place in the index.
Orphans(store) ==
  {id \in FetchIds : /\ RecordKey(id) \in DOMAIN store
                     /\ id \notin Range(ParseIdsOrEmpty(store))}

\* C26: whatever the index and the records are, a query and the statistics
\* go through the records of the index ids that have one, in index order,
\* and answer what they answer on those records alone: an id without record
\* adds no error and no entry. The total of the statistics and of a query
\* without filters is the number of index ids that have a record, no total
\* is larger than the index is long, and every record returned is one of
\* those. A record whose id is not in the index is in no answer of either,
\* and the fetch by id answers it.
C26_InconsistentStoreTolerated ==
  /\ (resp.op \in {"query", "stats"} /\ "failed" \notin DOMAIN resp)
       => /\ resp.fetched = PresentRecords(kv)
          /\ Len(resp.fetched) <= Len(ParseIdsOrEmpty(kv))
          /\ \A id \in Orphans(kv) :
               \A i \in DOMAIN resp.fetched : resp.fetched[i].id # Str(id)
  /\ (resp.op = "stats" /\ "failed" \notin DOMAIN resp)
       => /\ [status |-> resp.status, body |-> resp.body] =
               StatsResponse(PresentRecords(kv), resp.req.now)
          /\ resp.status = 200
               => resp.body.total = Num(Len(PresentIds(kv)))
  /\ (resp.op = "query" /\ "failed" \notin DOMAIN resp)
       => /\ [status |-> resp.status, body |-> resp.body] =
               QueryResponse(PresentRecords(kv), resp.req.limit, resp.req.offset,
                             resp.req.severity, resp.req.jurisdiction)
          /\ resp.status = 200
               => /\ resp.body.total.n <= Len(PresentIds(kv))
                  /\ Unfiltered(resp.req)
                       => resp.body.total = Num(Len(PresentIds(kv)))
                  /\ Range(resp.body.violations.a) \subseteq Range(PresentRecords(kv))
                  /\ \A id \in Orphans(kv) :
                       \A v \in Range(resp.body.violations.a) : v.id # Str(id)
  /\ (resp.op = "fetch" /\ resp.req.id \in Orphans(kv))
       => /\ resp.status = 200
          /\ resp.body = JsonParse(kv[RecordKey(resp.req.id)])

\* The index lists two ids and one of them has no record: the statistics
\* answer with total 1.
C26_Witness ==
  /\ resp.op = "stats" /\ resp.status = 200
  /\ Len(ParseIdsOrEmpty(kv)) = 2
  /\ Len(PresentIds(kv)) = 1
  /\ resp.body.total = Num(1)

\* A record that the index does not list is fetched by its id.
C26_OrphanFetched ==
  resp.op = "fetch" /\ resp.req.id \in Orphans(kv) /\ resp.status = 200

\* What the query of an answered request answers at the k-th offset
\* 0, L, 2L, ... of its limit L, on the same records and filters.
PageAt(ev, k) ==
  QueryResponse(ev.fetched, ev.req.limit, k * ev.req.limit,
                ev.req.severity, ev.req.jurisdiction)

RECURSIVE PagesUpTo(_, _)
\* The records of the pages 0 .. k, one page after the other.
PagesUpTo(ev, k) ==
  IF k < 0 THEN <<>>
  ELSE PagesUpTo(ev, k - 1) \o PageAt(ev, k).body.violations.a

\* The fetched records that pass the filters of a request, in index order.
Matching(ev) ==
  SelectSeq(ev.fetched,
            LAMBDA v : PassesFilters(v, ev.req.severity, ev.req.jurisdiction))

\* C27: on the records a query found, with its filters and its limit L > 0,
\* the pages at the offsets 0, L, 2L, ... are all answered; there is a last
\* page, the first whose hasMore is false, and hasMore is true on every page
\* before it; the pages up to the last, one after the other, are the
\* matching records in index order, each once; and every page reports the
\* number of those records as total.
C27_PagingCoversOnce ==
  (resp.op = "query" /\ resp.req.limit > 0)
    => /\ \A k \in 0..Len(resp.fetched) : PageAt(resp, k).status = 200
       /\ \E last \in 0..Len(resp.fetched) :
            /\ PageAt(resp, last).body.hasMore = Bool(FALSE)
            /\ \A k \in 0..(last - 1) : PageAt(resp, k).body.hasMore = Bool(TRUE)
            /\ PagesUpTo(resp, last) = Matching(resp)
            /\ \A k \in 0..last :
                 PageAt(resp, k).body.total = Num(Len(PagesUpTo(resp, last)))

====
